---- MODULE Spec2Model ----
(***************************************************************************)
(* Bond valuation calculator: the pure valuation functions                 *)
(* (calculateBondPrice, generateCashFlows, analyzeBondType,                *)
(* calculateBondMetrics), the observable state store (state, setState,     *)
(* subscribe) and the calculator's input handlers.                         *)
(*                                                                         *)
(* Numbers. The source computes in IEEE-754 doubles. The model keeps the   *)
(* three non-finite doubles (Infinity, -Infinity, NaN) and represents a    *)
(* finite double as a decimal fixed-point number: the integer v stands for *)
(* v / Scale. Addition and subtraction are exact; a product or a quotient  *)
(* is rounded to the nearest representable value, as a double operation    *)
(* rounds to the nearest double, only at a coarser resolution (1/Scale     *)
(* instead of 2^-52 relative). A magnitude above MaxFinite overflows to    *)
(* Infinity, as a double above 1.8e308 does. Signed zero is not modelled:  *)
(* the source only ever divides by the positive zero Math.pow(0, t).       *)
(***************************************************************************)
EXTENDS Integers, Sequences, FiniteSets, TLC

\* Resolution of the fixed-point representation of a finite double.
Scale == 10^4

\* Largest finite magnitude (in units of 1/Scale); beyond it a result is Infinity.
MaxFinite == 20000 * Scale

Fin(n) == [k |-> "fin", v |-> n]
NaN == [k |-> "nan", v |-> 0]
PosInf == [k |-> "inf", v |-> 1]
NegInf == [k |-> "inf", v |-> -1]

\* The double of the integer literal n, and of the decimal literal n.d (d in 1/10).
Num(n) == Fin(n * Scale)
Dec(n, tenths) == Fin(n * Scale + tenths * (Scale \div 10))

IsNaN(a) == a.k = "nan"
IsFinite(a) == a.k = "fin"
IsInf(a) == a.k = "inf"

AbsInt(n) == IF n < 0 THEN -n ELSE n
SgnInt(n) == IF n < 0 THEN -1 ELSE IF n > 0 THEN 1 ELSE 0

\* The sign of a non-NaN double: -1, 0 or 1.
Sign(a) == IF IsInf(a) THEN a.v ELSE SgnInt(a.v)

\* A finite result, or the infinity it overflows to.
Round(n) == IF AbsInt(n) > MaxFinite THEN (IF n < 0 THEN NegInf ELSE PosInf) ELSE Fin(n)

\* Unary minus.
Neg(a) == IF IsNaN(a) THEN NaN ELSE [k |-> a.k, v |-> -a.v]

\* Math.abs
Abs(a) == IF IsNaN(a) THEN NaN ELSE [k |-> a.k, v |-> AbsInt(a.v)]

\* a + b
Add(a, b) ==
  IF IsNaN(a) \/ IsNaN(b) THEN NaN
  ELSE IF IsInf(a) /\ IsInf(b) THEN (IF a.v = b.v THEN a ELSE NaN)
  ELSE IF IsInf(a) THEN a
  ELSE IF IsInf(b) THEN b
  ELSE Round(a.v + b.v)

\* a - b
Sub(a, b) == Add(a, Neg(b))

\* The product of two non-negative finite magnitudes, rounded to nearest;
\* -1 when it exceeds MaxFinite. The operands are split at Scale so that no
\* intermediate product leaves the 32-bit range.
MulMag(x, y) ==
  LET xh == x \div Scale
      xl == x % Scale
      yh == y \div Scale
      yl == y % Scale
  IN IF xh * yh > MaxFinite \div Scale THEN -1
     ELSE LET p == xh * yh * Scale + xh * yl + xl * yh + (xl * yl + Scale \div 2) \div Scale
          IN IF p > MaxFinite THEN -1 ELSE p

\* a * b
Mul(a, b) ==
  IF IsNaN(a) \/ IsNaN(b) THEN NaN
  ELSE IF IsInf(a) \/ IsInf(b)
       THEN (IF Sign(a) * Sign(b) = 0 THEN NaN
             ELSE IF Sign(a) * Sign(b) > 0 THEN PosInf ELSE NegInf)
  ELSE LET m == MulMag(AbsInt(a.v), AbsInt(b.v))
           s == SgnInt(a.v) * SgnInt(b.v)
       IN IF m < 0 THEN (IF s > 0 THEN PosInf ELSE NegInf) ELSE Fin(s * m)

\* Long division: the digits of r / d after q, one decimal place per step.
RECURSIVE DivDigits(_, _, _, _)
DivDigits(q, r, d, steps) ==
  IF steps = 0 THEN (IF 2 * r >= d THEN q + 1 ELSE q)
  ELSE DivDigits(q * 10 + (r * 10) \div d, (r * 10) % d, d, steps - 1)

\* The quotient of two finite magnitudes (y > 0), rounded to nearest; -1 when
\* it exceeds MaxFinite.
DivMag(x, y) ==
  IF x \div y >= MaxFinite \div Scale THEN -1
  ELSE LET q == DivDigits(x \div y, x % y, y, 4)
       IN IF q > MaxFinite THEN -1 ELSE q

\* a / b
Div(a, b) ==
  IF IsNaN(a) \/ IsNaN(b) THEN NaN
  ELSE IF IsInf(a) /\ IsInf(b) THEN NaN
  ELSE IF IsInf(a) THEN (IF Sign(b) < 0 THEN Neg(a) ELSE a)
  ELSE IF IsInf(b) THEN Fin(0)
  ELSE IF b.v = 0
       THEN (IF a.v = 0 THEN NaN ELSE IF a.v > 0 THEN PosInf ELSE NegInf)
  ELSE LET m == DivMag(AbsInt(a.v), AbsInt(b.v))
           s == SgnInt(a.v) * SgnInt(b.v)
       IN IF m < 0 THEN (IF s > 0 THEN PosInf ELSE NegInf) ELSE Fin(s * m)

\* a < b, a <= b, a > b, a === b on doubles: all false when either is NaN.
Lt(a, b) ==
  /\ ~IsNaN(a) /\ ~IsNaN(b)
  /\ IF IsInf(a) /\ IsInf(b) THEN a.v < b.v
     ELSE IF IsInf(a) THEN a.v < 0
     ELSE IF IsInf(b) THEN b.v > 0
     ELSE a.v < b.v
Gt(a, b) == Lt(b, a)
Eq(a, b) == ~IsNaN(a) /\ ~IsNaN(b) /\ a = b
Le(a, b) == Lt(a, b) \/ Eq(a, b)

\* Whether a finite double is an integer, and its integer part.
IsInteger(a) == IsFinite(a) /\ a.v % Scale = 0
Floor(a) == a.v \div Scale

\* The largest n in lo..hi with n * n <= x, given lo * lo <= x.
RECURSIVE IntSqrt(_, _, _)
IntSqrt(x, lo, hi) ==
  IF lo = hi THEN lo
  ELSE LET mid == (lo + hi + 1) \div 2
       IN IF mid * mid <= x THEN IntSqrt(x, mid, hi) ELSE IntSqrt(x, lo, mid - 1)

\* The square root of a non-negative magnitude, rounded to nearest. A large
\* magnitude is rooted at a coarser resolution (its root is a multiple of
\* coarse / Scale) so that no intermediate value leaves the 32-bit range.
Sqrt(x) ==
  LET coarse == IF x <= 214748 THEN 1 ELSE IF x <= 21474836 THEN 10 ELSE 100
      t == x * (Scale \div (coarse * coarse))
      lo == IntSqrt(t, 0, 46340)
  IN coarse * (IF t - lo * lo > lo THEN lo + 1 ELSE lo)

\* base^n for an integer n >= 0 by repeated rounded multiplication.
RECURSIVE PowInt(_, _)
PowInt(base, n) == IF n = 0 THEN Num(1) ELSE Mul(PowInt(base, n - 1), base)

\* Math.pow(base, e) for an exponent e > 0 that is an integer or a
\* half-integer (the exponents the calculator produces within the model's
\* inputs); a negative base with a fractional exponent gives NaN.
PowPositive(base, e) ==
  IF IsInteger(e) THEN PowInt(base, Floor(e))
  ELSE IF Sign(base) < 0 THEN NaN
  ELSE IF IsInf(base) THEN PosInf
  ELSE Mul(PowInt(base, Floor(e)), Fin(Sqrt(base.v)))

\* Math.pow(base, e): x^0 is 1 for every x (NaN included), otherwise a NaN
\* operand gives NaN, and x^-e is 1 / x^e.
Pow(base, e) ==
  IF IsNaN(e) THEN NaN
  ELSE IF e.v = 0 THEN Num(1)
  ELSE IF IsNaN(base) THEN NaN
  ELSE IF Sign(e) < 0 THEN Div(Num(1), PowPositive(base, Neg(e)))
  ELSE PowPositive(base, e)

(***************************************************************************)
(* Bond calculations module: pure functions.                               *)
(***************************************************************************)

\* The number of iterations of `for (let t = 1; t <= periods; t++)`: none when
\* periods is NaN or below 1, the integer part of periods otherwise.
LoopCount(periods) ==
  IF IsFinite(periods) /\ periods.v >= Scale THEN Floor(periods) ELSE 0

\* CouponLoop with the loop counting t = 0..n-1: every coupon discounted one
\* period too little.
RECURSIVE CouponLoopFromZero(_, _, _)
CouponLoopFromZero(periodicCoupon, periodicYield, n) ==
  IF n = 0 THEN Num(0)
  ELSE Add(CouponLoopFromZero(periodicCoupon, periodicYield, n - 1),
           Div(periodicCoupon, Pow(Add(Num(1), periodicYield), Num(n - 1))))

\* pvCoupons after the loop has run for t = 1..n, accumulated in the loop's order.
RECURSIVE CouponLoop(_, _, _)
CouponLoop(periodicCoupon, periodicYield, n) ==
  IF n = 0 THEN Num(0)
  ELSE Add(CouponLoop(periodicCoupon, periodicYield, n - 1),
           Div(periodicCoupon, Pow(Add(Num(1), periodicYield), Num(n))))

\* The element of a one-element set: Only({e(x) : x \in {v}}) is e(v), with v
\* evaluated once and named x, the way a const declaration names a value.
Only(S) == CHOOSE r \in S : TRUE

\* PresentValues with the face value left undiscounted.
PresentValuesUndiscounted(faceValue, periods, periodicCoupon, periodicYield) ==
  Only({[price |-> Add(pvCoupons, pvFaceValue),
         pvCoupons |-> pvCoupons,
         pvFaceValue |-> pvFaceValue,
         periodicCoupon |-> periodicCoupon,
         periodicYield |-> periodicYield,
         periods |-> periods]
        : pvCoupons \in {CouponLoop(periodicCoupon, periodicYield, LoopCount(periods))},
          pvFaceValue \in {faceValue}})

\* Lines 23-41 of calculateBondPrice, once the four constants are computed.
PresentValues(faceValue, periods, periodicCoupon, periodicYield) ==
  Only({[price |-> Add(pvCoupons, pvFaceValue),
         pvCoupons |-> pvCoupons,
         pvFaceValue |-> pvFaceValue,
         periodicCoupon |-> periodicCoupon,
         periodicYield |-> periodicYield,
         periods |-> periods]
        : pvCoupons \in {CouponLoop(periodicCoupon, periodicYield, LoopCount(periods))},
          pvFaceValue \in {Div(faceValue, Pow(Add(Num(1), periodicYield), periods))}})

\* calculateBondPrice with the annual yield used as the periodic yield.
calculateBondPriceAnnualYield(p) ==
  Only({PresentValues(p.faceValue, periods, Mul(p.faceValue, periodicCouponRate),
                      periodicYield)
        : periods \in {Mul(p.years, p.frequency)},
          periodicCouponRate \in {Div(Div(p.couponRate, Num(100)), p.frequency)},
          periodicYield \in {Div(p.ytm, Num(100))}})

calculateBondPrice(p) ==
  Only({PresentValues(p.faceValue, periods, Mul(p.faceValue, periodicCouponRate),
                      periodicYield)
        : periods \in {Mul(p.years, p.frequency)},
          periodicCouponRate \in {Div(Div(p.couponRate, Num(100)), p.frequency)},
          periodicYield \in {Div(Div(p.ytm, Num(100)), p.frequency)}})

\* InitialCashFlow with the purchase booked as money received.
InitialCashFlowReceived(bondPrice) ==
  [period |-> 0,
   yearLabel |-> Num(0),
   couponPayment |-> Num(0),
   principalPayment |-> bondPrice,
   totalCashFlow |-> bondPrice]

\* The entry pushed for period 0: the purchase.
InitialCashFlow(bondPrice) ==
  [period |-> 0,
   yearLabel |-> Num(0),
   couponPayment |-> Num(0),
   principalPayment |-> Neg(bondPrice),
   totalCashFlow |-> Neg(bondPrice)]

\* PeriodicCashFlow with the face value repaid in every period.
PeriodicCashFlowRepaying(t, faceValue, frequency, periods, periodicCoupon) ==
  [period |-> t,
   yearLabel |-> Div(Num(t), frequency),
   couponPayment |-> periodicCoupon,
   principalPayment |-> faceValue,
   totalCashFlow |-> Add(periodicCoupon, faceValue)]

\* The entry pushed by the loop body for period t.
PeriodicCashFlow(t, faceValue, frequency, periods, periodicCoupon) ==
  LET couponPayment == periodicCoupon
      principalPayment == IF Eq(Num(t), periods) THEN faceValue ELSE Num(0)
  IN [period |-> t,
      yearLabel |-> Div(Num(t), frequency),
      couponPayment |-> couponPayment,
      principalPayment |-> principalPayment,
      totalCashFlow |-> Add(couponPayment, principalPayment)]

\* g has the fields faceValue, frequency, years, periodicCoupon, bondPrice.
\* Entry i of the source's array (0-based) is element i + 1 of the sequence.
generateCashFlows(g) ==
  Only({<<InitialCashFlow(g.bondPrice)>> \o
        [t \in 1..LoopCount(periods) |->
           PeriodicCashFlow(t, g.faceValue, g.frequency, periods, g.periodicCoupon)]
        : periods \in {Mul(g.years, g.frequency)}})

\* analyzeBondType with a gap equal to the tolerance counted as par.
analyzeBondTypeInclusive(bondPrice, faceValue, tolerance) ==
  Only({IF Le(Abs(difference), tolerance)
        THEN [type |-> "par", description |-> "Par bond", difference |-> Num(0)]
        ELSE IF Gt(difference, Num(0))
        THEN [type |-> "premium", description |-> "Premium bond",
              difference |-> difference]
        ELSE [type |-> "discount", description |-> "Discount bond",
              difference |-> Abs(difference)]
        : difference \in {Sub(bondPrice, faceValue)}})

analyzeBondType(bondPrice, faceValue, tolerance) ==
  Only({IF Lt(Abs(difference), tolerance)
        THEN [type |-> "par", description |-> "Par bond", difference |-> Num(0)]
        ELSE IF Gt(difference, Num(0))
        THEN [type |-> "premium", description |-> "Premium bond",
              difference |-> difference]
        ELSE [type |-> "discount", description |-> "Discount bond",
              difference |-> Abs(difference)]
        : difference \in {Sub(bondPrice, faceValue)}})

\* The default of analyzeBondType's third parameter: 0.01.
DefaultTolerance == Fin(Scale \div 100)

calculateBondMetrics(params) ==
  Only({[bondPrice |-> priceData.price,
         pvCoupons |-> priceData.pvCoupons,
         pvFaceValue |-> priceData.pvFaceValue,
         periodicCoupon |-> priceData.periodicCoupon,
         periodicYield |-> priceData.periodicYield,
         periods |-> priceData.periods,
         cashFlows |-> generateCashFlows([faceValue |-> params.faceValue,
                                         frequency |-> params.frequency,
                                         years |-> params.years,
                                         periodicCoupon |-> priceData.periodicCoupon,
                                         bondPrice |-> priceData.price]),
         bondType |-> analyzeBondType(priceData.price, params.faceValue,
                                      DefaultTolerance)]
        : priceData \in {calculateBondPrice(params)}})

(***************************************************************************)
(* State management module and the calculator's handlers.                  *)
(***************************************************************************)

\* The fields setupInputListeners wires to an input element.
Fields == {"couponRate", "ytm", "years"}

\* The module-level state object before init() runs. bondCalculations is
\* null (the empty sequence) or a result (a one-element sequence); errors maps
\* the fields that have an active error to their message.
moduleState ==
  [faceValue |-> Num(100),
   couponRate |-> Dec(8, 6),
   ytm |-> Dec(6, 5),
   years |-> Num(5),
   frequency |-> Num(2),
   viewMode |-> "chart",
   errors |-> <<>>,
   bondCalculations |-> <<>>,
   listeners |-> <<>>]

\* A run is the program's mutable data while a handler executes: the state
\* object, the DOM properties the handlers write, what the three displays
\* show, the subscriber calls made so far (each with the state the subscriber
\* was handed) and the calls of calculateBondMetrics made so far.

\* The displays before anything is rendered: the page's placeholders.
NoDisplay == [results |-> <<>>, chart |-> <<>>, table |-> <<>>]

\* renderResults(calculations, params): the results panel shows the price, the
\* bond type and the rates of params.
renderResults(run, calculations, params) ==
  [run EXCEPT !.display.results =
     <<[bondPrice |-> calculations.bondPrice,
        bondType |-> calculations.bondType,
        pvCoupons |-> calculations.pvCoupons,
        pvFaceValue |-> calculations.pvFaceValue,
        couponRate |-> params.couponRate,
        ytm |-> params.ytm]>>]

\* renderChart(cashFlows): the chart is rebuilt from the schedule.
renderChart(run, cashFlows) == [run EXCEPT !.display.chart = <<cashFlows>>]

\* renderTable(cashFlows, ...): the table body is rebuilt from the schedule.
renderTable(run, cashFlows) == [run EXCEPT !.display.table = <<cashFlows>>]

\* The subscriber of the calculator: nothing is done for a state without
\* bondCalculations; otherwise the results and the table are rendered, and
\* the chart when the view is the chart.
handleStateChange(run, newState) ==
  IF newState.bondCalculations = <<>> THEN run
  ELSE Only({renderTable(
               IF newState.viewMode = "chart"
               THEN renderChart(shown, calculations.cashFlows) ELSE shown,
               calculations.cashFlows)
             : calculations \in {newState.bondCalculations[1]},
               shown \in {renderResults(run, newState.bondCalculations[1], newState)}})

\* The call fn(state) of one listener: the call is recorded, and the
\* calculator's subscriber does its rendering.
CallListener(run, fn) ==
  Only({IF fn = "handleStateChange" THEN handleStateChange(called, called.state)
        ELSE called
        : called \in {[run EXCEPT !.notified =
                         Append(run.notified, [fn |-> fn, newState |-> run.state])]}})

\* state.listeners.forEach(fn => fn(state)) from listener i on.
RECURSIVE ForEachListener(_, _)
ForEachListener(run, i) ==
  IF i > Len(run.state.listeners) THEN run
  ELSE Only({ForEachListener(next, i + 1)
             : next \in {CallListener(run, run.state.listeners[i])}})

\* setState with the listeners called before Object.assign.
setStateNotifyFirst(run, updates) ==
  Only({[notifiedRun EXCEPT !.state =
           [f \in DOMAIN run.state \cup DOMAIN updates |->
              IF f \in DOMAIN updates THEN updates[f] ELSE run.state[f]]]
        : notifiedRun \in {ForEachListener(run, 1)}})

\* Object.assign(state, updates), then every listener is called with state.
setState(run, updates) ==
  Only({ForEachListener([run EXCEPT !.state = merged], 1)
        : merged \in {[f \in DOMAIN run.state \cup DOMAIN updates |->
                         IF f \in DOMAIN updates THEN updates[f] ELSE run.state[f]]}})

subscribe(run, fn) ==
  [run EXCEPT !.state.listeners = Append(run.state.listeners, fn)]

\* validateField(field, value): the error message, or "" for none.
\* couponRate must be a number >= 0, ytm a finite number, years a number > 0.
validateField(field, value) ==
  CASE field = "couponRate" ->
         IF IsNaN(value) \/ Lt(value, Num(0)) THEN "couponRate must be 0 or more" ELSE ""
    [] field = "ytm" ->
         IF ~IsFinite(value) THEN "ytm must be a number" ELSE ""
    [] field = "years" ->
         IF IsNaN(value) \/ Le(value, Num(0)) THEN "years must be above 0" ELSE ""

hasErrors(errors) == DOMAIN errors # {}

\* The text of the three input elements the model types, and parseFloat of each.
InputTexts ==
  [couponRate |-> {"8.6", "5", "-1"}, ytm |-> {"6.5", ""}, years |-> {"5", "0"}]

parseFloat(text) ==
  CASE text = "8.6" -> Dec(8, 6)
    [] text = "6.5" -> Dec(6, 5)
    [] text = "5" -> Num(5)
    [] text = "0" -> Num(0)
    [] text = "-1" -> Num(-1)
    [] OTHER -> NaN

updateCalculations(run) ==
  IF hasErrors(run.state.errors)
  THEN setState(run, [bondCalculations |-> <<>>])
  ELSE Only({setState([run EXCEPT !.calls =
                          Append(run.calls, [params |-> params,
                                             errors |-> run.state.errors])],
                       [bondCalculations |-> <<calculateBondMetrics(params)>>])
             : params \in
                 {[faceValue |-> run.state.faceValue,
                   couponRate |-> run.state.couponRate,
                   ytm |-> run.state.ytm,
                   years |-> run.state.years,
                   frequency |-> run.state.frequency]}})

\* NextErrors starting from an empty map instead of a copy of state.errors.
NextErrorsFresh(old, field, error) ==
  IF error # "" THEN [g \in {field} |-> error] ELSE <<>>

\* Lines 121-126 of debouncedUpdate: a copy of the errors map with the field's
\* entry set to the error, or deleted when there is none.
NextErrors(old, field, error) ==
  IF error # ""
  THEN [g \in DOMAIN old \cup {field} |-> IF g = field THEN error ELSE old[g]]
  ELSE [g \in DOMAIN old \ {field} |-> old[g]]

\* StoreAndRecalculate with the result recomputed and stored whether or not
\* an error is active.
StoreAndRecalculateAlways(run, field, value, errors) ==
  Only({setState([updated EXCEPT !.calls =
                    Append(updated.calls, [params |-> params,
                                           errors |-> updated.state.errors])],
                 [bondCalculations |-> <<calculateBondMetrics(params)>>])
        : updated \in {setState(run, [f \in {field, "errors"} |->
                                        IF f = field THEN value ELSE errors])},
          params \in {[faceValue |-> run.state.faceValue,
                       couponRate |-> IF field = "couponRate" THEN value
                                      ELSE run.state.couponRate,
                       ytm |-> IF field = "ytm" THEN value ELSE run.state.ytm,
                       years |-> IF field = "years" THEN value ELSE run.state.years,
                       frequency |-> run.state.frequency]}})

\* Lines 128-139 of debouncedUpdate.
StoreAndRecalculate(run, field, value, errors) ==
  Only({IF ~hasErrors(errors) THEN updateCalculations(updated) ELSE updated
        : updated \in {setState(run, [f \in {field, "errors"} |->
                                        IF f = field THEN value ELSE errors])}})

\* debouncedUpdate with the years input wired to the frequency field.
debouncedUpdateMiswired(run, field, text) ==
  Only({StoreAndRecalculate(run, IF field = "years" THEN "frequency" ELSE field, value,
                            NextErrors(run.state.errors, field,
                                       validateField(field, value)))
        : value \in {parseFloat(text)}})

\* The debounced callback of one input field, run with the input's text.
debouncedUpdate(run, field, text) ==
  Only({StoreAndRecalculate(run, field, value,
                            NextErrors(run.state.errors, field,
                                       validateField(field, value)))
        : value \in {parseFloat(text)}})

\* switchView that also drops the stored result.
switchViewClearing(run, view) ==
  setState(run, [f \in {"viewMode", "bondCalculations"} |->
                   IF f = "viewMode" THEN view ELSE <<>>])

switchView(run, view) == setState(run, [viewMode |-> view])

\* Below this viewport width the chart view is not offered.
NarrowBelow == 600

\* handleResponsiveView that disables the chart button at a narrow width but
\* leaves the view as it is.
handleResponsiveViewKeepingView(run, viewportWidth) ==
  IF viewportWidth < NarrowBelow
  THEN [run EXCEPT !.chartBtnDisabled = TRUE]
  ELSE [run EXCEPT !.chartBtnDisabled = FALSE]

handleResponsiveView(run, viewportWidth) ==
  IF viewportWidth < NarrowBelow
  THEN [(IF run.state.viewMode = "chart" THEN switchView(run, "table") ELSE run)
          EXCEPT !.chartBtnDisabled = TRUE]
  ELSE [run EXCEPT !.chartBtnDisabled = FALSE]

\* The callback of the resize timeout: handleResponsiveView, then the chart is
\* drawn again when it is the view and there is a result.
resizeCallback(run, viewportWidth) ==
  Only({IF after.state.viewMode = "chart" /\ after.state.bondCalculations # <<>>
        THEN renderChart(after, after.state.bondCalculations[1].cashFlows)
        ELSE after
        : after \in {handleResponsiveView(run, viewportWidth)}})

\* clearTimeout(id) cancels the armed timeout; setTimeout(fn, ms) arms one more.
\* The argument and the value are the number of armed timeouts of one callback.
clearTimeout(armed) == 0
setTimeout(armed) == armed + 1

\* debounce(fn, 300): each call cancels the armed timeout and arms a new one.
debounce(armed) == setTimeout(clearTimeout(armed))

\* The resize listener without the clearTimeout.
resizeListenerNoClear(armed) == setTimeout(armed)

\* The resize listener: clearTimeout(resizeTimeout), then setTimeout(..., 250).
resizeListener(armed) == setTimeout(clearTimeout(armed))

\* The viewport widths the model resizes between.
Widths == {NarrowBelow - 1, NarrowBelow}

\* init() at viewport width w: setupResizeListener's initial
\* handleResponsiveView, subscribe(handleStateChange), updateCalculations().
init(w) ==
  updateCalculations(
    subscribe(
      handleResponsiveView(
        [state |-> moduleState, chartBtnDisabled |-> FALSE, display |-> NoDisplay,
         notified |-> <<>>, calls |-> <<>>], w),
      "handleStateChange"))

(***************************************************************************)
(* State.                                                                  *)
(*   state            the state object of the state module                 *)
(*   chartBtnDisabled the disabled property of #chart-view-btn             *)
(*   display          what the results panel, the chart and the table show *)
(*   notified         the subscriber calls made by the last step, in order *)
(*   calls            the calls of calculateBondMetrics made by the last   *)
(*                    step, each with the errors map at the time           *)
(*   input            the text of each input element                       *)
(*   pending          the number of armed debounce timeouts of each field  *)
(*   width            window.innerWidth                                    *)
(*   resizePending    the number of armed resize timeouts                  *)
(*   args, ret        a direct call of a calculation function: its         *)
(*                    arguments and how it ended                           *)
(***************************************************************************)
VARIABLES state, chartBtnDisabled, display, notified, calls, input, pending, width,
          resizePending, args, ret

appVars ==
  <<state, chartBtnDisabled, display, notified, calls, input, pending, width,
    resizePending>>
calcVars == <<args, ret>>
vars ==
  <<state, chartBtnDisabled, display, notified, calls, input, pending, width,
    resizePending, args, ret>>

\* The data a handler starts from.
Run ==
  [state |-> state, chartBtnDisabled |-> chartBtnDisabled, display |-> display,
   notified |-> <<>>, calls |-> <<>>]

\* The data a handler leaves behind.
Finish(run) ==
  /\ state' = run.state
  /\ chartBtnDisabled' = run.chartBtnDisabled
  /\ display' = run.display
  /\ notified' = run.notified
  /\ calls' = run.calls

\* The arguments of the calculator's own call when the page loads.
DefaultArgs ==
  [faceValue |-> moduleState.faceValue,
   couponRate |-> moduleState.couponRate,
   ytm |-> moduleState.ytm,
   years |-> moduleState.years,
   frequency |-> moduleState.frequency,
   periodicCoupon |-> Dec(4, 3),
   bondPrice |-> moduleState.faceValue,
   tolerance |-> DefaultTolerance]

NoCall == [fn |-> "none", threw |-> FALSE, value |-> <<>>]

\* The page after init() has run, at either viewport width.
Init ==
  /\ width \in Widths
  /\ \E run \in {init(width)} :
        /\ state = run.state
        /\ chartBtnDisabled = run.chartBtnDisabled
        /\ display = run.display
        /\ notified = run.notified
        /\ calls = run.calls
  /\ input = [couponRate |-> "8.6", ytm |-> "6.5", years |-> "5"]
  /\ pending = [f \in Fields |-> 0]
  /\ resizePending = 0
  /\ args = DefaultArgs
  /\ ret = NoCall

\* An input or change event on a field's element: the text changes and the
\* field's debounce timer is (re)started.
TypeInput(f, text) ==
  /\ input' = [input EXCEPT ![f] = text]
  /\ pending' = [pending EXCEPT ![f] = debounce(pending[f])]
  /\ notified' = <<>>
  /\ calls' = <<>>
  /\ UNCHANGED <<state, chartBtnDisabled, display, width, resizePending, calcVars>>

\* A field's debounce timer fires: debouncedUpdate runs to completion.
InputTimerFires(f) ==
  /\ pending[f] > 0
  /\ pending' = [pending EXCEPT ![f] = pending[f] - 1]
  /\ \E run \in {debouncedUpdate(Run, f, input[f])} : Finish(run)
  /\ UNCHANGED <<input, width, resizePending, calcVars>>

\* A click on the chart button (a disabled button receives no click).
ClickChartBtn ==
  /\ ~chartBtnDisabled
  /\ \E run \in {switchView(Run, "chart")} : Finish(run)
  /\ UNCHANGED <<input, pending, width, resizePending, calcVars>>

\* A click on the table button, or on the skip link to the visualizer.
ClickTableBtn ==
  /\ \E run \in {switchView(Run, "table")} : Finish(run)
  /\ UNCHANGED <<input, pending, width, resizePending, calcVars>>

\* A resize event: the resize timer is (re)started.
ResizeWindow(w) ==
  /\ width' = w
  /\ resizePending' = resizeListener(resizePending)
  /\ notified' = <<>>
  /\ calls' = <<>>
  /\ UNCHANGED <<state, chartBtnDisabled, display, input, pending, calcVars>>

\* The resize timer fires.
ResizeTimerFires ==
  /\ resizePending > 0
  /\ resizePending' = resizePending - 1
  /\ \E run \in {resizeCallback(Run, width)} : Finish(run)
  /\ UNCHANGED <<input, pending, width, calcVars>>

Next ==
  \/ \E f \in Fields : \E text \in InputTexts[f] : TypeInput(f, text)
  \/ \E f \in Fields : InputTimerFires(f)
  \/ ClickChartBtn
  \/ ClickTableBtn
  \/ \E w \in Widths : ResizeWindow(w)
  \/ ResizeTimerFires

Spec == Init /\ [][Next]_vars

(***************************************************************************)
(* Direct calls of the calculation functions, on a grid of arguments.      *)
(***************************************************************************)

\* Terms run from half a year to MaxHalfYears half-years.
MaxHalfYears == 4

\* Distances of a classified price from the face value run up to MaxGap.
MaxGap == 5

Frequencies == {1, 2, 4, 12}
FaceValues == {Num(100), Num(1000)}
\* Coupon rates: none, ordinary ones, and one large enough for
\* faceValue * periodicCouponRate to overflow.
CouponRates == {Num(0), Num(4), Num(6), Dec(8, 6), Num(2500)}
\* Yields: slightly negative, zero, positive, one large enough for
\* (1 + periodicYield)^t to overflow, one that makes 1 + periodicYield small
\* enough for it to underflow, and the two that make 1 + periodicYield 0 and -1.
Ytms(frequency) ==
  {Num(-2), Num(0), Num(4), Num(6), Dec(6, 5), Num(2500),
   Num(-99 * frequency), Num(-100 * frequency), Num(-200 * frequency)}
Terms == {Fin(h * (Scale \div 2)) : h \in 1..MaxHalfYears}
Tolerances == {DefaultTolerance, Fin(Scale \div 5), Num(0), Num(1)}
\* Prices to classify: the face value moved by each tolerance, by one unit
\* less and by one unit more, by whole units up to MaxGap, and the non-finite doubles.
Gaps ==
  {sgn * (t.v + e) : sgn \in {-1, 1}, t \in Tolerances, e \in {-1, 0, 1}}
    \cup {g * Scale : g \in (-MaxGap)..MaxGap}
Prices(faceValue) == {Add(faceValue, Fin(g)) : g \in Gaps} \cup {NaN, PosInf, NegInf}

BondArgs ==
  UNION {{[DefaultArgs EXCEPT !.faceValue = fv, !.couponRate = cr, !.ytm = y,
                               !.years = yrs, !.frequency = Num(fq)]
           : fv \in FaceValues, cr \in CouponRates, y \in Ytms(fq), yrs \in Terms}
         : fq \in Frequencies}

ClassifierArgs ==
  {[DefaultArgs EXCEPT !.bondPrice = bp, !.tolerance = tol, !.periodicCoupon = pc]
     : bp \in Prices(DefaultArgs.faceValue), tol \in Tolerances,
       pc \in {Num(0), Dec(4, 3)}}

BondParameters(a) ==
  [faceValue |-> a.faceValue, couponRate |-> a.couponRate, ytm |-> a.ytm,
   years |-> a.years, frequency |-> a.frequency]

InitCalc ==
  /\ width = NarrowBelow
  /\ \E run \in {init(width)} :
        /\ state = run.state
        /\ chartBtnDisabled = run.chartBtnDisabled
        /\ display = run.display
        /\ notified = run.notified
        /\ calls = run.calls
  /\ input = [couponRate |-> "8.6", ytm |-> "6.5", years |-> "5"]
  /\ pending = [f \in Fields |-> 0]
  /\ resizePending = 0
  /\ args \in BondArgs \cup ClassifierArgs
  /\ ret = NoCall

\* A call that returns v: none of the four functions has a throw statement,
\* and arithmetic on doubles does not throw.
Returns(fn, v) ==
  /\ ret' = [fn |-> fn, threw |-> FALSE, value |-> <<v>>]
  /\ UNCHANGED <<args, appVars>>

CallCalculateBondPrice ==
  Returns("calculateBondPrice", calculateBondPrice(BondParameters(args)))

CallGenerateCashFlows ==
  Returns("generateCashFlows",
          generateCashFlows([faceValue |-> args.faceValue,
                             frequency |-> args.frequency,
                             years |-> args.years,
                             periodicCoupon |-> args.periodicCoupon,
                             bondPrice |-> args.bondPrice]))

CallAnalyzeBondType ==
  Returns("analyzeBondType",
          analyzeBondType(args.bondPrice, args.faceValue, args.tolerance))

\* analyzeBondType(bondPrice, faceValue): the third parameter takes its default.
CallAnalyzeBondTypeDefault ==
  Returns("analyzeBondType2",
          analyzeBondType(args.bondPrice, args.faceValue, DefaultTolerance))

CallCalculateBondMetrics ==
  Returns("calculateBondMetrics", calculateBondMetrics(BondParameters(args)))

NextCalc ==
  \/ CallCalculateBondPrice
  \/ CallGenerateCashFlows
  \/ CallAnalyzeBondType
  \/ CallAnalyzeBondTypeDefault
  \/ CallCalculateBondMetrics

SpecCalc == InitCalc /\ [][NextCalc]_vars

(***************************************************************************)
(* Direct calls of the state module: subscribe and setState.               *)
(***************************************************************************)

\* At most MaxListeners listeners are registered.
MaxListeners == 3

\* The functions passed to subscribe: the calculator's subscriber and two others.
StoreSubscribers == {"handleStateChange", "observerA", "observerB"}

\* The partial updates passed to setState.
StoreUpdates ==
  {[viewMode |-> "table"],
   [viewMode |-> "chart"],
   [bondCalculations |-> <<>>],
   [bondCalculations |-> <<calculateBondMetrics(BondParameters(DefaultArgs))>>],
   [couponRate |-> Num(5), errors |-> <<>>],
   [couponRate |-> Num(-1), errors |-> [couponRate |-> "couponRate must be 0 or more"]]}

\* The state module as loaded, before init() has subscribed or computed anything.
InitStore ==
  /\ state = moduleState
  /\ chartBtnDisabled = FALSE
  /\ display = NoDisplay
  /\ notified = <<>>
  /\ calls = <<>>
  /\ input = [couponRate |-> "8.6", ytm |-> "6.5", years |-> "5"]
  /\ pending = [f \in Fields |-> 0]
  /\ resizePending = 0
  /\ width = NarrowBelow
  /\ args = DefaultArgs
  /\ ret = NoCall

StoreSubscribe(fn) ==
  /\ Len(state.listeners) < MaxListeners
  /\ \E run \in {subscribe(Run, fn)} : Finish(run)
  /\ UNCHANGED <<input, pending, width, resizePending, calcVars>>

StoreSetState(updates) ==
  /\ \E run \in {setState(Run, updates)} : Finish(run)
  /\ UNCHANGED <<input, pending, width, resizePending, calcVars>>

NextStore ==
  \/ \E fn \in StoreSubscribers : StoreSubscribe(fn)
  \/ \E updates \in StoreUpdates : StoreSetState(updates)

SpecStore == InitStore /\ [][NextStore]_vars

(***************************************************************************)
(* Properties of the calculation functions (checked under SpecCalc).       *)
(***************************************************************************)

Returned(fn) == ret.fn = fn /\ ~ret.threw /\ Len(ret.value) = 1
Value == ret.value[1]

\* What the validator gate and the data model accept: faceValue > 0,
\* couponRate >= 0, ytm finite, years > 0, frequency one of 1, 2, 4, 12.
ValidParameters(a) ==
  /\ Gt(a.faceValue, Num(0))
  /\ Le(Num(0), a.couponRate)
  /\ IsFinite(a.ytm)
  /\ Gt(a.years, Num(0))
  /\ \E fq \in Frequencies : a.frequency = Num(fq)

\* years * frequency is a whole number of periods.
WholePeriods(a) == IsInteger(Mul(a.years, a.frequency))

\* ytm = -100 * frequency: 1 + periodicYield is zero.
YieldIsMinusOne(a) == Eq(a.ytm, Mul(Num(-100), a.frequency))

\* C4 (as claimed): calculateBondPrice and calculateBondMetrics end with a
\* DomainError, and no result, exactly when ytm = -100 * frequency; a result
\* that is returned has a finite price, pvCoupons and pvFaceValue.
C4_DomainErrorAtMinusOne ==
  /\ ret.fn \in {"calculateBondPrice", "calculateBondMetrics"} =>
       /\ ret.threw <=> YieldIsMinusOne(args)
       /\ ret.threw => ret.value = <<>>
  /\ Returned("calculateBondPrice") =>
       IsFinite(Value.price) /\ IsFinite(Value.pvCoupons) /\ IsFinite(Value.pvFaceValue)
  /\ Returned("calculateBondMetrics") =>
       IsFinite(Value.bondPrice) /\ IsFinite(Value.pvCoupons) /\ IsFinite(Value.pvFaceValue)

\* The sum over the whole numbers t with lo <= t <= periods of c / (1 + y)^t.
RECURSIVE DiscountedSum(_, _, _, _)
DiscountedSum(c, y, lo, periods) ==
  IF ~Le(Num(lo), periods) THEN Num(0)
  ELSE Add(Div(c, Pow(Add(Num(1), y), Num(lo))), DiscountedSum(c, y, lo + 1, periods))

\* C5: for valid parameters the result of calculateBondPrice has
\* price = pvCoupons + pvFaceValue, with pvCoupons the sum over t = 1..periods
\* of periodicCoupon / (1 + periodicYield)^t and pvFaceValue =
\* faceValue / (1 + periodicYield)^periods; calculateBondMetrics reports the
\* same three values, bondPrice being price. The equalities are between
\* doubles as values: where the discount factor is zero both sides are the
\* same Infinity or NaN.
C5_PriceIsSumOfPresentValues ==
  /\ Returned("calculateBondPrice") /\ ValidParameters(args) =>
       /\ Value.price = Add(Value.pvCoupons, Value.pvFaceValue)
       /\ Value.periods = Mul(args.years, args.frequency)
       /\ Value.periodicYield = Div(Div(args.ytm, Num(100)), args.frequency)
       /\ Value.periodicCoupon =
            Mul(args.faceValue, Div(Div(args.couponRate, Num(100)), args.frequency))
       /\ Value.pvCoupons =
            DiscountedSum(Value.periodicCoupon, Value.periodicYield, 1, Value.periods)
       /\ Value.pvFaceValue =
            Div(args.faceValue, Pow(Add(Num(1), Value.periodicYield), Value.periods))
  /\ Returned("calculateBondMetrics") /\ ValidParameters(args) =>
       /\ Value.bondPrice = Add(Value.pvCoupons, Value.pvFaceValue)
       /\ Value.pvCoupons =
            DiscountedSum(Value.periodicCoupon, Value.periodicYield, 1, Value.periods)
       /\ Value.pvFaceValue =
            Div(args.faceValue, Pow(Add(Num(1), Value.periodicYield), Value.periods))

\* C5's case: a price with at least two coupons, all three values finite and positive.
C5_Witness ==
  /\ Returned("calculateBondPrice")
  /\ Lt(Num(1), Value.periods)
  /\ Gt(Value.pvCoupons, Num(0)) /\ IsFinite(Value.pvCoupons)
  /\ Gt(Value.pvFaceValue, Num(0)) /\ IsFinite(Value.price)

\* The shape of a schedule for a purchase at bondPrice: one entry per period
\* and one for the purchase; entry 0 pays -bondPrice of principal, the last
\* entry faceValue, every entry between them 0.
ScheduleShape(cashFlows, a, bondPrice) ==
  /\ Eq(Num(Len(cashFlows)), Add(Mul(a.years, a.frequency), Num(1)))
  /\ cashFlows[1].principalPayment = Neg(bondPrice)
  /\ cashFlows[Len(cashFlows)].principalPayment = a.faceValue
  /\ \A i \in 2..(Len(cashFlows) - 1) : cashFlows[i].principalPayment = Num(0)

\* C6 (as claimed): for every input the validator gate accepts, the schedule
\* returned by generateCashFlows has the shape above.
C6_ScheduleShapeForEveryTerm ==
  /\ Returned("generateCashFlows") /\ ValidParameters(args) =>
       ScheduleShape(Value, args, args.bondPrice)
  /\ Returned("calculateBondMetrics") /\ ValidParameters(args) =>
       ScheduleShape(Value.cashFlows, args, Value.bondPrice)

\* C6 (amended): for every input the validator gate accepts whose
\* years * frequency is a whole number, the schedule returned by
\* generateCashFlows has years * frequency + 1 entries, entry 0 with
\* principalPayment = -bondPrice, the last with principalPayment = faceValue,
\* and every entry between them with principalPayment = 0.
C6_ScheduleShapeForWholePeriods ==
  /\ Returned("generateCashFlows") /\ ValidParameters(args) /\ WholePeriods(args) =>
       ScheduleShape(Value, args, args.bondPrice)
  /\ Returned("calculateBondMetrics") /\ ValidParameters(args) /\ WholePeriods(args) =>
       ScheduleShape(Value.cashFlows, args, Value.bondPrice)

\* C6's case: a schedule of at least three periods has been generated.
C6_Witness ==
  /\ Returned("generateCashFlows") /\ WholePeriods(args)
  /\ Len(Value) >= 4
  /\ Value[2].principalPayment = Num(0)
  /\ Value[Len(Value)].principalPayment = args.faceValue

\* The net present value of a schedule at periodic yield y.
RECURSIVE NetPresentValue(_, _, _)
NetPresentValue(cashFlows, y, i) ==
  IF i > Len(cashFlows) THEN Num(0)
  ELSE Add(Div(cashFlows[i].totalCashFlow, Pow(Add(Num(1), y), Num(cashFlows[i].period))),
           NetPresentValue(cashFlows, y, i + 1))

\* The tolerance of the zero test: one cent.
NpvTolerance == Fin(Scale \div 100)

ZeroNetPresentValue(m) ==
  Le(Abs(NetPresentValue(m.cashFlows, m.periodicYield, 1)), NpvTolerance)

\* C7 (as claimed): for all valid parameters the schedule in the result of
\* calculateBondMetrics has zero net present value at the result's periodicYield.
C7_ZeroNpvForAllValid ==
  Returned("calculateBondMetrics") /\ ValidParameters(args) => ZeroNetPresentValue(Value)

\* C7 (amended): for valid parameters whose years * frequency is a whole
\* number, whenever the computed bondPrice is finite (which it is not at
\* ytm = -100 * frequency, nor when a present value overflows), the schedule
\* in the result of calculateBondMetrics has zero net present value (within
\* tolerance) at the result's periodicYield.
C7_ZeroNpvForWholePeriods ==
  Returned("calculateBondMetrics") /\ ValidParameters(args) /\ WholePeriods(args)
    /\ IsFinite(Value.bondPrice) => ZeroNetPresentValue(Value)

\* C7's case: a result with coupons, a non-zero yield and several periods.
C7_Witness ==
  /\ Returned("calculateBondMetrics") /\ WholePeriods(args)
  /\ Gt(Value.periodicYield, Num(0)) /\ Gt(Value.periodicCoupon, Num(0))
  /\ Len(Value.cashFlows) >= 4
  /\ ZeroNetPresentValue(Value)

PremiumAndDiscount(a, price) ==
  /\ Gt(a.couponRate, a.ytm) => Gt(price, a.faceValue)
  /\ Lt(a.couponRate, a.ytm) => Lt(price, a.faceValue)

ParTolerance(faceValue) == Mul(faceValue, Fin(Scale \div 500))

ParIdentity(a, price) ==
  Eq(a.ytm, a.couponRate) => Le(Abs(Sub(price, a.faceValue)), ParTolerance(a.faceValue))

\* C9 (as claimed): for all valid parameters, if ytm = couponRate the price
\* equals faceValue within the tolerance.
C9_ParForEveryTerm ==
  Returned("calculateBondPrice") /\ ValidParameters(args) => ParIdentity(args, Value.price)

\* C9 (amended): for valid parameters whose years * frequency is a whole
\* number, if ytm = couponRate and the computed price is finite (the coupon
\* faceValue * periodicCouponRate has not overflowed), the price equals
\* faceValue within the tolerance.
C9_ParForWholePeriods ==
  Returned("calculateBondPrice") /\ ValidParameters(args) /\ WholePeriods(args)
    /\ IsFinite(Value.price) => ParIdentity(args, Value.price)

\* C9's case: a bond with coupons and ytm = couponRate has been priced.
C9_Witness ==
  /\ Returned("calculateBondPrice") /\ WholePeriods(args)
  /\ Eq(args.ytm, args.couponRate) /\ Gt(args.couponRate, Num(0))
  /\ Lt(Num(1), Value.periods)

\* The classification the claim describes, for a given tolerance.
Classified(r, bondPrice, faceValue, tolerance) ==
  /\ r.type = "par" <=> Lt(Abs(Sub(bondPrice, faceValue)), tolerance)
  /\ r.type = "par" => r.difference = Num(0)
  /\ r.type # "par" /\ Gt(bondPrice, faceValue) =>
       r.type = "premium" /\ r.difference = Sub(bondPrice, faceValue)
  /\ r.type # "par" /\ ~Gt(bondPrice, faceValue) =>
       r.type = "discount" /\ r.difference = Sub(faceValue, bondPrice)
  /\ ~Lt(r.difference, Num(0))

\* C10: analyzeBondType returns par with difference 0 exactly when
\* |bondPrice - faceValue| < tolerance (a gap equal to the tolerance is not
\* par), otherwise premium with difference bondPrice - faceValue when
\* bondPrice > faceValue, otherwise discount with difference
\* faceValue - bondPrice; the difference is never negative; without a third
\* argument the tolerance is 0.01.
C10_Classification ==
  /\ Returned("analyzeBondType") =>
       Classified(Value, args.bondPrice, args.faceValue, args.tolerance)
  /\ Returned("analyzeBondType2") =>
       Classified(Value, args.bondPrice, args.faceValue, Div(Num(1), Num(100)))

\* C10's case: a price whose gap equals a positive tolerance was classified.
C10_Witness ==
  /\ Returned("analyzeBondType")
  /\ Gt(args.tolerance, Num(0))
  /\ Abs(Sub(args.bondPrice, args.faceValue)) = args.tolerance
  /\ Value.type = "discount"

(***************************************************************************)
(* Properties of the calculator (checked under Spec).                      *)
(***************************************************************************)

\* calculateBondMetrics of the five parameters a state object holds.
MetricsOf(s) ==
  calculateBondMetrics([faceValue |-> s.faceValue, couponRate |-> s.couponRate,
                        ytm |-> s.ytm, years |-> s.years, frequency |-> s.frequency])

\* C1 (as claimed): after any sequence of completed input handlers, a non-null
\* bondCalculations equals calculateBondMetrics of the state's current
\* faceValue, couponRate, ytm, years and frequency.
C1_ResultMatchesInputs ==
  state.bondCalculations # <<>> => state.bondCalculations = <<MetricsOf(state)>>

\* C2 (as claimed): whenever the errors map is non-empty, bondCalculations is null.
C2_ErrorsClearResult ==
  hasErrors(state.errors) => state.bondCalculations = <<>>

\* C3 (as claimed): every state handed to a subscriber is of one version: when
\* its errors map is empty, its bondCalculations is the result for its own
\* parameters (never the result of the parameters before the edit).
C3_NotifiedStateIsOneVersion ==
  \A i \in DOMAIN notified :
    ~hasErrors(notified[i].newState.errors) =>
      notified[i].newState.bondCalculations = <<MetricsOf(notified[i].newState)>>

(***************************************************************************)
(* Properties of the state module (checked under SpecStore).               *)
(***************************************************************************)

\* C12: a step of setState(updates) ends with every field of updates merged
\* into the state, the other fields as they were, and one call per
\* registered listener, in registration order, each handed the merged state.
C12_MergeThenNotifyInOrder ==
  [][\A updates \in StoreUpdates :
       StoreSetState(updates) =>
         /\ \A f \in DOMAIN state :
              state'[f] = IF f \in DOMAIN updates THEN updates[f] ELSE state[f]
         /\ Len(notified') = Len(state.listeners)
         /\ \A i \in 1..Len(state.listeners) :
              /\ notified'[i].fn = state.listeners[i]
              /\ notified'[i].newState = state']_vars

\* C12's case: setState has notified three listeners, two of them different
\* functions, of a state an update has changed.
C12_Witness ==
  /\ Len(notified) = 3
  /\ notified[1].fn # notified[2].fn
  /\ notified[3].newState = state
  /\ state.couponRate = Num(5)

(***************************************************************************)
(* Further properties of the calculator (checked under Spec).              *)
(***************************************************************************)

\* C13: every call of calculateBondMetrics made by init, by a debounced input
\* handler or by updateCalculations is made while the errors map is empty.
C13_NoCalculationWhileErrors ==
  \A i \in DOMAIN calls : ~hasErrors(calls[i].errors)

\* C13's case: a debounced handler has stored an edit and recomputed.
C13_Witness ==
  /\ Len(calls) = 1
  /\ calls[1].params.couponRate = Num(5)
  /\ state.bondCalculations = <<calculateBondMetrics(calls[1].params)>>

\* C14 (as claimed): the value the store holds for couponRate, ytm and years
\* is always one that validateField accepts.
C14_OnlyValidatedValuesStored ==
  \A f \in Fields : validateField(f, state[f]) = ""

\* C15 (as claimed, checked under SpecStore): whenever bondCalculations is
\* null, the results panel, the chart and the table show their placeholders.
C15_PlaceholderWithoutResult ==
  state.bondCalculations = <<>> => display = NoDisplay

\* C17: a trigger that arrives while its timeout is armed leaves exactly one
\* timeout armed and runs no handler; the timeout firing runs the handler once
\* and leaves none armed, so a burst ends in one execution, after its last
\* trigger. A trigger of one field touches neither the timeouts of the other
\* fields nor the resize timeout, and a resize touches no field's timeout.
C17_OneExecutionPerBurst ==
  [][/\ \A f \in Fields :
          /\ (\E text \in InputTexts[f] : TypeInput(f, text)) =>
                /\ pending'[f] = 1
                /\ \A g \in Fields \ {f} : pending'[g] = pending[g]
                /\ resizePending' = resizePending
                /\ state' = state /\ display' = display
          /\ InputTimerFires(f) =>
                /\ pending[f] = 1 /\ pending'[f] = 0
                /\ \A g \in Fields \ {f} : pending'[g] = pending[g]
                /\ resizePending' = resizePending
                /\ state'[f] = parseFloat(input[f])
     /\ (\E w \in Widths : ResizeWindow(w)) =>
          /\ resizePending' = 1
          /\ pending' = pending
          /\ state' = state /\ display' = display /\ chartBtnDisabled' = chartBtnDisabled
     /\ ResizeTimerFires =>
          /\ resizePending = 1 /\ resizePending' = 0
          /\ pending' = pending
          /\ chartBtnDisabled' = (width < NarrowBelow)]_vars

\* C17's case: after edits of two fields and a resize, each has its own
\* timeout armed, one apiece, and no handler has run yet.
C17_Witness ==
  /\ pending["couponRate"] = 1 /\ pending["years"] = 1 /\ pending["ytm"] = 0
  /\ resizePending = 1
  /\ input["couponRate"] = "5" /\ input["years"] = "0"
  /\ state.couponRate = Dec(8, 6) /\ state.years = Num(5)

\* C18: when the debounced handler of field f has run, the errors map has an
\* entry for f exactly if validateField rejected the value just parsed (the
\* entry being its message), and the entries of the other fields are what
\* they were before the handler ran.
C18_ErrorsOfOtherFieldsKept ==
  [][\A f \in Fields :
       InputTimerFires(f) =>
         /\ f \in DOMAIN state'.errors <=> validateField(f, parseFloat(input[f])) # ""
         /\ f \in DOMAIN state'.errors =>
              state'.errors[f] = validateField(f, parseFloat(input[f]))
         /\ \A g \in Fields \ {f} :
              /\ g \in DOMAIN state'.errors <=> g \in DOMAIN state.errors
              /\ g \in DOMAIN state.errors => state'.errors[g] = state.errors[g]]_vars

\* C18's case: handlers of all three fields have run, the last ones leaving
\* the errors of two fields in place beside a field that is valid.
C18_Witness ==
  /\ DOMAIN state.errors = {"years", "ytm"}
  /\ state.couponRate = Num(5)
  /\ \A f \in Fields : pending[f] = 0
  /\ notified # <<>>

\* C19: in every reachable state faceValue is 100 and frequency is 2, every
\* call of calculateBondMetrics is made with them, and the stored result
\* redeems 100 and pays twice a year.
C19_FaceValueAndFrequencyFixed ==
  /\ state.faceValue = Num(100)
  /\ state.frequency = Num(2)
  /\ \A i \in DOMAIN calls :
       calls[i].params.faceValue = Num(100) /\ calls[i].params.frequency = Num(2)
  /\ state.bondCalculations # <<>> =>
       LET cashFlows == state.bondCalculations[1].cashFlows
       IN /\ Len(cashFlows) >= 2
          /\ cashFlows[Len(cashFlows)].principalPayment = Num(100)
          /\ cashFlows[2].yearLabel = Div(Num(1), Num(2))

\* C19's case: handlers of all three fields, a view switch and a resize have
\* run, and a result has been recomputed from an edit.
C19_Witness ==
  /\ state.couponRate = Num(5)
  /\ state.years = Num(0)
  /\ IsNaN(state.ytm)
  /\ state.viewMode = "table"
  /\ chartBtnDisabled
  /\ state.bondCalculations # <<>>
  /\ state.bondCalculations[1].periodicCoupon = Dec(2, 5)

\* C20: viewMode is 'chart' or 'table' in every reachable state, and a step
\* that runs switchView (a click on either button, or the resize callback
\* forcing the table) leaves every other field of the state as it was; a
\* click leaves viewMode the view that was asked for.
C20_SwitchViewChangesOnlyViewMode ==
  /\ [](state.viewMode \in {"chart", "table"})
  /\ [][/\ ClickChartBtn \/ ClickTableBtn \/ ResizeTimerFires =>
            \A f \in DOMAIN state \ {"viewMode"} : state'[f] = state[f]
        /\ ClickChartBtn => state'.viewMode = "chart"
        /\ ClickTableBtn => state'.viewMode = "table"]_vars

\* C20's case: the view has been switched to the table at a wide viewport
\* while an error and an edited value were in the state.
C20_Witness ==
  /\ state.viewMode = "table" /\ ~chartBtnDisabled
  /\ width = NarrowBelow /\ resizePending = 0
  /\ hasErrors(state.errors)
  /\ state.bondCalculations # <<>>
  /\ Len(notified) = 1 /\ notified[1].newState = state
  /\ calls = <<>>

\* C21: a run of handleResponsiveView at a width below 600 leaves viewMode
\* 'table' and the chart button disabled; while the chart button is disabled
\* the view is the table, and only a run of handleResponsiveView at a width of
\* 600 or more enables the button again; so once the resize has been handled
\* (no resize timeout is armed) a narrow viewport shows the table with the
\* chart button disabled.
C21_TableWhileNarrow ==
  /\ [](chartBtnDisabled => state.viewMode = "table")
  /\ [](width < NarrowBelow /\ resizePending = 0 =>
          chartBtnDisabled /\ state.viewMode = "table")
  /\ [][/\ ResizeTimerFires /\ width < NarrowBelow =>
            chartBtnDisabled' /\ state'.viewMode = "table"
        /\ chartBtnDisabled /\ ~chartBtnDisabled' =>
            ResizeTimerFires /\ width >= NarrowBelow]_vars

\* C21's case: the chart had been drawn, the window has become narrow, the
\* resize has been handled and the switch to the table has been notified.
C21_Witness ==
  /\ width < NarrowBelow /\ resizePending = 0
  /\ chartBtnDisabled /\ state.viewMode = "table"
  /\ display.chart # <<>>
  /\ Len(notified) = 1 /\ notified[1].newState.viewMode = "table"
  /\ calls = <<>>

====
